---------------------------- MODULE Spec2Model ----------------------------
(***************************************************************************)
(* Registration service: the Express handlers of backend-nodejs/server.js  *)
(* over the Mongoose collection `users`, with the age-eligibility rule,    *)
(* and the RegistrationForm component of the frontend that previews it.    *)
(*                                                                         *)
(* Modelling conventions                                                   *)
(*  - a JavaScript Date is a record [year, month, date], month 0-based as  *)
(*    getMonth() returns it;                                               *)
(*  - a string that the code trims or pattern-matches (fullName) is a      *)
(*    sequence of one-character strings;                                   *)
(*  - dateOfBirth.year and dateOfBirth.day are numerals without sign or    *)
(*    leading zero and are written as integers; dateOfBirth.month is the   *)
(*    string the validator compares against its list;                      *)
(*  - an optional field is a sequence, empty when the request leaves the   *)
(*    field out; of the optional fields timeOfBirth.hour is modelled, the  *)
(*    others (timeOfBirth.minute, birthPlace, height, weight,              *)
(*    astrological_sign) are absent from the requests;                     *)
(*  - the database answers every query (no storage failure, no HTTP 500).  *)
(***************************************************************************)
EXTENDS Integers, Sequences, FiniteSets, TLC

VARIABLES
    users,      \* the collection: ObjectId -> document
    nextId,     \* number of the next ObjectId the driver generates
    today,      \* the value `new Date()` returns now
    res,        \* the response of the last request handled
    call,       \* a direct call of a utility function: arguments and result
    pending,    \* the handlers suspended at an await: handler -> its locals
    form        \* the state of the RegistrationForm component

vars == <<users, nextId, today, res, call, pending, form>>

-----------------------------------------------------------------------------
(* Bounds *)

MaxId == 2          \* documents ever inserted
MaxTicks == 1       \* days the clock advances past StartDate
MaxProbeAge == 60   \* largest age handed to validateAge directly

-----------------------------------------------------------------------------
(* The JavaScript Date constructor and the clock *)

IsLeap(y) == (y % 4 = 0 /\ y % 100 # 0) \/ y % 400 = 0

\* m is a 0-based month index
DaysInMonth(y, m) ==
    CASE m = 1 -> IF IsLeap(y) THEN 29 ELSE 28
      [] m \in {3, 5, 8, 10} -> 30
      [] OTHER -> 31

RECURSIVE NewDate(_, _, _)
\* new Date(year, monthIndex, day): a month index past 11 rolls into the next
\* year, a day past the end of the month rolls into the next month
NewDate(year, monthIndex, day) ==
    IF monthIndex > 11 THEN NewDate(year + 1, monthIndex - 12, day)
    ELSE IF day > DaysInMonth(year, monthIndex)
         THEN NewDate(year, monthIndex + 1, day - DaysInMonth(year, monthIndex))
         ELSE [year |-> year, month |-> monthIndex, date |-> day]

NextDay(d) == NewDate(d.year, d.month, d.date + 1)

StartDate == [year |-> 2024, month |-> 5, date |-> 14]

RECURSIVE DaysAfter(_, _)
DaysAfter(d, n) == IF n = 0 THEN d ELSE DaysAfter(NextDay(d), n - 1)

EndDate == DaysAfter(StartDate, MaxTicks)

\* the year `new Date().getFullYear()` gave when the validation chain was built
ServerStartYear == StartDate.year

-----------------------------------------------------------------------------
(* Utility functions *)

\* parseInt on the month strings the requests carry
parseInt(s) ==
    CASE s = "01" -> 1 [] s = "02" -> 2 [] s = "03" -> 3 [] s = "04" -> 4
      [] s = "05" -> 5 [] s = "06" -> 6 [] s = "07" -> 7 [] s = "08" -> 8
      [] s = "09" -> 9 [] s = "10" -> 10 [] s = "11" -> 11 [] s = "12" -> 12
      [] s = "13" -> 13

\* the age computation with the day of the birthday counted as before it
AgeBetweenDayInclusive(birthDate, now) ==
    LET age == now.year - birthDate.year
        monthDiff == now.month - birthDate.month
    IN  IF monthDiff < 0 \/ (monthDiff = 0 /\ now.date <= birthDate.date)
        THEN age - 1
        ELSE age

\* the body of calculateAge after its two Date objects are built
AgeBetween(birthDate, now) ==
    LET age == now.year - birthDate.year
        monthDiff == now.month - birthDate.month
    IN  IF monthDiff < 0 \/ (monthDiff = 0 /\ now.date < birthDate.date)
        THEN age - 1
        ELSE age

calculateAge(year, month, day) ==
    AgeBetween(NewDate(year, parseInt(month) - 1, day), today)

MaleMinMsg == "Men must be at least 21 years old"
FemaleMinMsg == "Women must be at least 18 years old"
MaxAgeMsg == "Maximum age for both genders is 40 years. Please visit our other site for registration."

\* validateAge with the female minimum applied to men as well
validateAgeMaleMin18(age, gender) ==
    (IF gender = "Male" /\ age < 18 THEN <<MaleMinMsg>> ELSE <<>>)
    \o (IF gender = "Female" /\ age < 18 THEN <<FemaleMinMsg>> ELSE <<>>)
    \o (IF age > 40 THEN <<MaxAgeMsg>> ELSE <<>>)

\* validateAge with the maximum applied only to the two known genders
validateAgeMaxKnownGender(age, gender) ==
    (IF gender = "Male" /\ age < 21 THEN <<MaleMinMsg>> ELSE <<>>)
    \o (IF gender = "Female" /\ age < 18 THEN <<FemaleMinMsg>> ELSE <<>>)
    \o (IF gender \in {"Male", "Female"} /\ age > 40
        THEN <<MaxAgeMsg>> ELSE <<>>)

\* validateAge with the maximum compared by >=
validateAgeMaxInclusive(age, gender) ==
    (IF gender = "Male" /\ age < 21 THEN <<MaleMinMsg>> ELSE <<>>)
    \o (IF gender = "Female" /\ age < 18 THEN <<FemaleMinMsg>> ELSE <<>>)
    \o (IF age >= 40 THEN <<MaxAgeMsg>> ELSE <<>>)

\* validateAge without the maximum
validateAgeNoMax(age, gender) ==
    (IF gender = "Male" /\ age < 21 THEN <<MaleMinMsg>> ELSE <<>>)
    \o (IF gender = "Female" /\ age < 18 THEN <<FemaleMinMsg>> ELSE <<>>)

validateAge(age, gender) ==
    (IF gender = "Male" /\ age < 21 THEN <<MaleMinMsg>> ELSE <<>>)
    \o (IF gender = "Female" /\ age < 18 THEN <<FemaleMinMsg>> ELSE <<>>)
    \o (IF age > 40 THEN <<MaxAgeMsg>> ELSE <<>>)

-----------------------------------------------------------------------------
(* Strings *)

Letters == {"A", "B", "l", "o"}
Whitespace == {" "}

RECURSIVE trimStart(_)
trimStart(s) ==
    IF s # <<>> /\ Head(s) \in Whitespace THEN trimStart(Tail(s)) ELSE s

RECURSIVE trimEnd(_)
trimEnd(s) ==
    IF s # <<>> /\ s[Len(s)] \in Whitespace
    THEN trimEnd(SubSeq(s, 1, Len(s) - 1))
    ELSE s

\* String.prototype.trim, and the `trim: true` setter of the schema
trim(s) == trimEnd(trimStart(s))

-----------------------------------------------------------------------------
(* Validation middleware *)

MinNameLen == 2
MaxNameLen == 50
MinYear == 1940
ValidMonths == {"01", "02", "03", "04", "05", "06",
                "07", "08", "09", "10", "11", "12"}
MinDay == 1
MaxDay == 31
Genders == {"Male", "Female"}
MinHour == 0
MaxHour == 23

\* the messages of the failing validators, in chain order
registrationValidation(body) ==
    (IF Len(body.fullName) = 0 THEN <<"Full name is required">> ELSE <<>>)
    \o (IF Len(body.fullName) < MinNameLen \/ Len(body.fullName) > MaxNameLen
        THEN <<"Full name must be between 2 and 50 characters">> ELSE <<>>)
    \o (IF body.fullName = <<>>
           \/ \E i \in 1..Len(body.fullName) :
                 body.fullName[i] \notin Letters \cup Whitespace
        THEN <<"Full name can only contain letters and spaces">> ELSE <<>>)
    \o (IF body.dateOfBirth.year < MinYear \/ body.dateOfBirth.year > ServerStartYear
        THEN <<"Please enter a valid birth year">> ELSE <<>>)
    \o (IF body.dateOfBirth.month \notin ValidMonths
        THEN <<"Please select a valid month">> ELSE <<>>)
    \o (IF body.dateOfBirth.day < MinDay \/ body.dateOfBirth.day > MaxDay
        THEN <<"Please enter a valid day">> ELSE <<>>)
    \o (IF body.gender = "" THEN <<"Gender is required">> ELSE <<>>)
    \o (IF body.gender \notin Genders
        THEN <<"Gender must be Male or Female">> ELSE <<>>)
    \o (IF body.timeOfBirth.hour # <<>>
           /\ (body.timeOfBirth.hour[1] < MinHour \/ body.timeOfBirth.hour[1] > MaxHour)
        THEN <<"Hour must be between 0 and 23">> ELSE <<>>)

-----------------------------------------------------------------------------
(* Requests *)

Body(name, y, m, d, g) ==
    [fullName |-> name,
     dateOfBirth |-> [year |-> y, month |-> m, day |-> d],
     gender |-> g,
     timeOfBirth |-> [hour |-> <<>>],
     age |-> 25]    \* an age the client put in the body; no handler reads it

Al == <<"A", "l">>
Bo == <<"B", "o">>

\* bodies that pass the validation chain
ChainedBodies ==
    { Body(n, y, "06", 15, g) : n \in {Al, Bo}, y \in {1983, 2003}, g \in Genders }
    \cup { Body(<<" ", "A", "l">>, 2003, "06", 15, "Female") }
    \cup { Body(<<" ", " ">>, 2003, "06", 15, "Female") }

\* bodies with one malformed field
MalformedBodies ==
    { Body(<<"A", "1">>, 2003, "06", 15, "Female"),
      Body(<<"A">>, 2003, "06", 15, "Female"),
      Body(Al, 1939, "06", 15, "Female"),
      Body(Al, 1983, "13", 15, "Male"),
      Body(Al, 2003, "06", 32, "Female"),
      Body(Al, 1983, "06", 15, "Other") }

Bodies == ChainedBodies \cup MalformedBodies

\* a body whose required fields are well formed and whose optional hour is not
OptionalBodies ==
    { [Body(Bo, 2003, "06", 15, "Female") EXCEPT !.timeOfBirth.hour = <<24>>] }

AllBodies == Bodies \cup OptionalBodies

\* req.params.id: the hex string of an ObjectId, or a string that is none
ObjectIds == 1..MaxId
Param(n) == [valid |-> TRUE, oid |-> n]
BadParam == [valid |-> FALSE, oid |-> 0]
Params == {Param(n) : n \in ObjectIds} \cup {BadParam}

\* a response, with the identifier the request named (the one generated, for
\* a successful create)
Reply(op, param, status, error) ==
    [op |-> op, param |-> param, status |-> status, error |-> error,
     user |-> <<>>]

\* the `user` object of the 201 response
Echo(savedUser) ==
    [fullName |-> savedUser.fullName,
     dateOfBirth |-> savedUser.dateOfBirth,
     gender |-> savedUser.gender,
     age |-> savedUser.age,
     createdAt |-> savedUser.createdAt,
     status |-> savedUser.status]

NoPending == [p \in {} |-> 0]
NoForm == [mounted |-> FALSE]

NoCall == [fn |-> "none", done |-> FALSE, args |-> <<>>, ret |-> 0]

-----------------------------------------------------------------------------
(* Handlers *)

Init ==
    /\ users = [i \in {} |-> 0]
    /\ nextId = 1
    /\ today = StartDate
    /\ res = Reply("none", BadParam, 0, "")
    /\ pending = NoPending
    /\ form = NoForm
    /\ call = NoCall

\* User.findOne({fullName, 'dateOfBirth.year', ... month, ... day})
findOne(fullName, dateOfBirth) ==
    { id \in DOMAIN users :
        /\ users[id].fullName = fullName
        /\ users[id].dateOfBirth = dateOfBirth }

\* the new document with the age taken from the request body
NewUserBodyAge(body, age) ==
    [fullName |-> trim(body.fullName),
     dateOfBirth |-> body.dateOfBirth,
     gender |-> body.gender,
     timeOfBirth |-> body.timeOfBirth,
     age |-> body.age,
     createdAt |-> today,
     status |-> "active"]

\* the new document with 'pending' as the default of `status`
NewUserPending(body, age) ==
    [fullName |-> trim(body.fullName),
     dateOfBirth |-> body.dateOfBirth,
     gender |-> body.gender,
     timeOfBirth |-> body.timeOfBirth,
     age |-> age,
     createdAt |-> today,
     status |-> "pending"]

\* new User({...}) with the schema defaults
NewUser(body, age) ==
    [fullName |-> trim(body.fullName),
     dateOfBirth |-> body.dateOfBirth,
     gender |-> body.gender,
     timeOfBirth |-> body.timeOfBirth,
     age |-> age,
     createdAt |-> today,
     status |-> "active"]

\* the stored document replaced by a new one built from the body
UpdatedReplace(doc, body, age) ==
    [fullName |-> trim(body.fullName),
     dateOfBirth |-> body.dateOfBirth,
     gender |-> body.gender,
     timeOfBirth |-> body.timeOfBirth,
     age |-> age,
     createdAt |-> today,
     status |-> "active"]

\* the update document of findByIdAndUpdate applied to a stored document
Updated(doc, body, age) ==
    [doc EXCEPT !.fullName = trim(body.fullName),
                !.dateOfBirth = body.dateOfBirth,
                !.gender = body.gender,
                !.timeOfBirth = body.timeOfBirth,
                !.age = age]

\* the create handler with the duplicate query on the untrimmed name
RegisterUntrimmedQuery(body) ==
    LET errors == registrationValidation(body)
        dateOfBirth == body.dateOfBirth
        age == calculateAge(dateOfBirth.year, dateOfBirth.month, dateOfBirth.day)
        ageValidationErrors == validateAge(age, body.gender)
        existingUser == findOne(body.fullName, dateOfBirth)
        newUser == NewUser(body, age)
    IN  /\ UNCHANGED <<today, call, pending, form>>
        /\ IF errors # <<>>
           THEN /\ res' = Reply("register", BadParam, 400, "Validation failed")
                /\ UNCHANGED <<users, nextId>>
           ELSE IF ageValidationErrors # <<>>
           THEN /\ res' = Reply("register", BadParam, 400, "Age validation failed")
                /\ UNCHANGED <<users, nextId>>
           ELSE IF existingUser # {}
           THEN /\ res' = Reply("register", BadParam, 409, "User already exists")
                /\ UNCHANGED <<users, nextId>>
           ELSE IF newUser.fullName = <<>>
           THEN \* `required: true` of the schema fails in save()
                /\ res' = Reply("register", BadParam, 400, "Database validation failed")
                /\ UNCHANGED <<users, nextId>>
           ELSE /\ nextId <= MaxId
                /\ users' = [i \in DOMAIN users \cup {nextId} |->
                                IF i = nextId THEN newUser ELSE users[i]]
                /\ nextId' = nextId + 1
                /\ res' = [Reply("register", Param(nextId), 201, "")
                              EXCEPT !.user = <<Echo(newUser)>>]

\* the create handler with the duplicate query ahead of the age rule
RegisterDuplicateFirst(body) ==
    LET errors == registrationValidation(body)
        dateOfBirth == body.dateOfBirth
        age == calculateAge(dateOfBirth.year, dateOfBirth.month, dateOfBirth.day)
        ageValidationErrors == validateAge(age, body.gender)
        existingUser == findOne(trim(body.fullName), dateOfBirth)
        newUser == NewUser(body, age)
    IN  /\ UNCHANGED <<today, call, pending, form>>
        /\ IF errors # <<>>
           THEN /\ res' = Reply("register", BadParam, 400, "Validation failed")
                /\ UNCHANGED <<users, nextId>>
           ELSE IF existingUser # {}
           THEN /\ res' = Reply("register", BadParam, 409, "User already exists")
                /\ UNCHANGED <<users, nextId>>
           ELSE IF ageValidationErrors # <<>>
           THEN /\ res' = Reply("register", BadParam, 400, "Age validation failed")
                /\ UNCHANGED <<users, nextId>>
           ELSE IF newUser.fullName = <<>>
           THEN /\ res' = Reply("register", BadParam, 400, "Database validation failed")
                /\ UNCHANGED <<users, nextId>>
           ELSE /\ nextId <= MaxId
                /\ users' = [i \in DOMAIN users \cup {nextId} |->
                                IF i = nextId THEN newUser ELSE users[i]]
                /\ nextId' = nextId + 1
                /\ res' = [Reply("register", Param(nextId), 201, "")
                              EXCEPT !.user = <<Echo(newUser)>>]

\* POST /api/register
Register(body) ==
    LET errors == registrationValidation(body)
        dateOfBirth == body.dateOfBirth
        age == calculateAge(dateOfBirth.year, dateOfBirth.month, dateOfBirth.day)
        ageValidationErrors == validateAge(age, body.gender)
        existingUser == findOne(trim(body.fullName), dateOfBirth)
        newUser == NewUser(body, age)
    IN  /\ UNCHANGED <<today, call, pending, form>>
        /\ IF errors # <<>>
           THEN /\ res' = Reply("register", BadParam, 400, "Validation failed")
                /\ UNCHANGED <<users, nextId>>
           ELSE IF ageValidationErrors # <<>>
           THEN /\ res' = Reply("register", BadParam, 400, "Age validation failed")
                /\ UNCHANGED <<users, nextId>>
           ELSE IF existingUser # {}
           THEN /\ res' = Reply("register", BadParam, 409, "User already exists")
                /\ UNCHANGED <<users, nextId>>
           ELSE IF newUser.fullName = <<>>
           THEN \* `required: true` of the schema fails in save()
                /\ res' = Reply("register", BadParam, 400, "Database validation failed")
                /\ UNCHANGED <<users, nextId>>
           ELSE /\ nextId <= MaxId
                /\ users' = [i \in DOMAIN users \cup {nextId} |->
                                IF i = nextId THEN newUser ELSE users[i]]
                /\ nextId' = nextId + 1
                /\ res' = [Reply("register", Param(nextId), 201, "")
                              EXCEPT !.user = <<Echo(newUser)>>]

\* the update handler without its age gate
UpdateNoAgeGate(param, body) ==
    LET errors == registrationValidation(body)
        dateOfBirth == body.dateOfBirth
        age == calculateAge(dateOfBirth.year, dateOfBirth.month, dateOfBirth.day)
        id == param.oid
    IN  /\ UNCHANGED <<today, call, nextId, pending, form>>
        /\ IF errors # <<>>
           THEN /\ res' = Reply("update", param, 400, "Validation failed")
                /\ UNCHANGED users
           ELSE IF ~param.valid
           THEN /\ res' = Reply("update", param, 400, "Invalid user ID format")
                /\ UNCHANGED users
           ELSE IF trim(body.fullName) = <<>>
           THEN /\ res' = Reply("update", param, 400, "Database validation failed")
                /\ UNCHANGED users
           ELSE IF id \notin DOMAIN users
           THEN /\ res' = Reply("update", param, 404, "User not found")
                /\ UNCHANGED users
           ELSE /\ users' = [users EXCEPT ![id] = Updated(@, body, age)]
                /\ res' = [Reply("update", param, 200, "")
                              EXCEPT !.user = <<Updated(users[id], body, age)>>]

\* the update handler with `upsert: true` among the options
UpdateUpsert(param, body) ==
    LET errors == registrationValidation(body)
        dateOfBirth == body.dateOfBirth
        age == calculateAge(dateOfBirth.year, dateOfBirth.month, dateOfBirth.day)
        ageValidationErrors == validateAge(age, body.gender)
        id == param.oid
    IN  /\ UNCHANGED <<today, call, nextId, pending, form>>
        /\ IF errors # <<>>
           THEN /\ res' = Reply("update", param, 400, "Validation failed")
                /\ UNCHANGED users
           ELSE IF ageValidationErrors # <<>>
           THEN /\ res' = Reply("update", param, 400, "Age validation failed")
                /\ UNCHANGED users
           ELSE IF ~param.valid
           THEN /\ res' = Reply("update", param, 400, "Invalid user ID format")
                /\ UNCHANGED users
           ELSE IF trim(body.fullName) = <<>>
           THEN /\ res' = Reply("update", param, 400, "Database validation failed")
                /\ UNCHANGED users
           ELSE IF id \notin DOMAIN users
           THEN /\ users' = [i \in DOMAIN users \cup {id} |->
                                IF i = id THEN NewUser(body, age) ELSE users[i]]
                /\ res' = [Reply("update", param, 200, "")
                              EXCEPT !.user = <<NewUser(body, age)>>]
           ELSE /\ users' = [users EXCEPT ![id] = Updated(@, body, age)]
                /\ res' = [Reply("update", param, 200, "")
                              EXCEPT !.user = <<Updated(users[id], body, age)>>]

\* PUT /api/users/:id
Update(param, body) ==
    LET errors == registrationValidation(body)
        dateOfBirth == body.dateOfBirth
        age == calculateAge(dateOfBirth.year, dateOfBirth.month, dateOfBirth.day)
        ageValidationErrors == validateAge(age, body.gender)
        id == param.oid
    IN  /\ UNCHANGED <<today, call, nextId, pending, form>>
        /\ IF errors # <<>>
           THEN /\ res' = Reply("update", param, 400, "Validation failed")
                /\ UNCHANGED users
           ELSE IF ageValidationErrors # <<>>
           THEN /\ res' = Reply("update", param, 400, "Age validation failed")
                /\ UNCHANGED users
           ELSE IF ~param.valid
           THEN \* findByIdAndUpdate throws CastError
                /\ res' = Reply("update", param, 400, "Invalid user ID format")
                /\ UNCHANGED users
           ELSE IF trim(body.fullName) = <<>>
           THEN \* runValidators: `required: true` fails
                /\ res' = Reply("update", param, 400, "Database validation failed")
                /\ UNCHANGED users
           ELSE IF id \notin DOMAIN users
           THEN /\ res' = Reply("update", param, 404, "User not found")
                /\ UNCHANGED users
           ELSE /\ users' = [users EXCEPT ![id] = Updated(@, body, age)]
                /\ res' = [Reply("update", param, 200, "")
                              EXCEPT !.user = <<Updated(users[id], body, age)>>]

\* the delete handler without its not-found branch
DeleteNoNotFound(param) ==
    LET id == param.oid
    IN  /\ UNCHANGED <<today, call, nextId, pending, form>>
        /\ IF ~param.valid
           THEN /\ res' = Reply("delete", param, 400, "Invalid user ID format")
                /\ UNCHANGED users
           ELSE /\ users' = [i \in DOMAIN users \ {id} |-> users[i]]
                /\ res' = Reply("delete", param, 200, "")

\* DELETE /api/users/:id
Delete(param) ==
    LET id == param.oid
    IN  /\ UNCHANGED <<today, call, nextId, pending, form>>
        /\ IF ~param.valid
           THEN \* findByIdAndDelete throws CastError
                /\ res' = Reply("delete", param, 400, "Invalid user ID format")
                /\ UNCHANGED users
           ELSE IF id \notin DOMAIN users
           THEN /\ res' = Reply("delete", param, 404, "User not found")
                /\ UNCHANGED users
           ELSE /\ users' = [i \in DOMAIN users \ {id} |-> users[i]]
                /\ res' = Reply("delete", param, 200, "")

\* a day passes
Tick ==
    /\ today # EndDate
    /\ today' = NextDay(today)
    /\ UNCHANGED <<users, nextId, res, call, pending, form>>

Next ==
    \/ \E body \in Bodies : Register(body)
    \/ \E param \in Params, body \in Bodies : Update(param, body)
    \/ \E param \in Params : Delete(param)
    \/ Tick

Spec == Init /\ [][Next]_vars

\* the requests of a single day, the optional field among their bodies
NextRequests ==
    \/ \E body \in AllBodies : Register(body)
    \/ \E param \in Params, body \in AllBodies : Update(param, body)
    \/ \E param \in Params : Delete(param)

SpecRequests == Init /\ [][NextRequests]_vars

-----------------------------------------------------------------------------
(* The requests whose names carry a space in front or behind: the chain    *)
(* sees the name as submitted, the store keeps it trimmed                  *)

PaddedNames == { Al, <<" ", "A">>, <<"A", " ">>, <<" ", "A", "l">> }

NameBodies ==
    { Body(n, y, "06", 15, "Female") : n \in PaddedNames, y \in {1990, 2003} }

NextNames ==
    \/ \E body \in NameBodies : Register(body)
    \/ \E param \in Params, body \in NameBodies : Update(param, body)
    \/ \E param \in Params : Delete(param)

SpecNames == Init /\ [][NextNames]_vars

-----------------------------------------------------------------------------
(* Two create requests in flight at once.  A handler runs to its next      *)
(* await in one step: the validation chain and the age rule, then the      *)
(* findOne query, then save(); the steps of the two handlers interleave    *)

Handlers == {1, 2}

RaceBodies ==
    { Body(Al, 2003, "06", 15, "Female"),
      Body(<<" ", "A", "l">>, 2003, "06", 15, "Female"),
      Body(Bo, 2003, "06", 15, "Female"),
      Body(Al, 2003, "06", 15, "Male"),
      Body(<<" ", " ">>, 2003, "06", 15, "Female"),
      Body(<<"A">>, 2003, "06", 15, "Female") }

\* the locals of a handler suspended at `pc`, or its response when pc = "done"
Suspended(op, param, body, age, pc, status, error) ==
    [op |-> op, param |-> param, body |-> body, age |-> age, pc |-> pc,
     status |-> status, error |-> error]

\* `pending` with the handler h at its next await, or done
Await(h, locals) ==
    [x \in DOMAIN pending \cup {h} |-> IF x = h THEN locals ELSE pending[x]]

\* POST /api/register, up to `await User.findOne`
RegisterStart(h, body) ==
    LET errors == registrationValidation(body)
        dateOfBirth == body.dateOfBirth
        age == calculateAge(dateOfBirth.year, dateOfBirth.month, dateOfBirth.day)
        ageValidationErrors == validateAge(age, body.gender)
    IN  /\ h \notin DOMAIN pending
        /\ pending' =
              IF errors # <<>>
              THEN Await(h, Suspended("register", BadParam, body, age, "done",
                                      400, "Validation failed"))
              ELSE IF ageValidationErrors # <<>>
              THEN Await(h, Suspended("register", BadParam, body, age, "done",
                                      400, "Age validation failed"))
              ELSE Await(h, Suspended("register", BadParam, body, age, "findOne",
                                      0, ""))
        /\ UNCHANGED <<users, nextId, today, res, call, form>>

\* the findOne query is answered; up to `await newUser.save()`
RegisterFindOne(h) ==
    /\ h \in DOMAIN pending
    /\ pending[h].op = "register"
    /\ pending[h].pc = "findOne"
    /\ LET body == pending[h].body
           existingUser == findOne(trim(body.fullName), body.dateOfBirth)
       IN  pending' =
              IF existingUser # {}
              THEN Await(h, Suspended("register", BadParam, body, pending[h].age,
                                      "done", 409, "User already exists"))
              ELSE Await(h, Suspended("register", BadParam, body, pending[h].age,
                                      "save", 0, ""))
    /\ UNCHANGED <<users, nextId, today, res, call, form>>

\* save() against a collection with a unique index on the name and birth date
RegisterSaveUnique(h) ==
    /\ h \in DOMAIN pending
    /\ pending[h].op = "register"
    /\ pending[h].pc = "save"
    /\ LET body == pending[h].body
           newUser == NewUser(body, pending[h].age)
       IN  IF newUser.fullName = <<>>
           THEN /\ pending' = Await(h, Suspended("register", BadParam, body,
                                                 pending[h].age, "done", 400,
                                                 "Database validation failed"))
                /\ UNCHANGED <<users, nextId>>
           ELSE IF findOne(newUser.fullName, newUser.dateOfBirth) # {}
           THEN /\ pending' = Await(h, Suspended("register", BadParam, body,
                                                 pending[h].age, "done", 500,
                                                 "Internal server error"))
                /\ UNCHANGED <<users, nextId>>
           ELSE /\ nextId <= MaxId
                /\ users' = [i \in DOMAIN users \cup {nextId} |->
                                IF i = nextId THEN newUser ELSE users[i]]
                /\ nextId' = nextId + 1
                /\ pending' = Await(h, Suspended("register", Param(nextId), body,
                                                 pending[h].age, "done", 201, ""))
    /\ UNCHANGED <<today, res, call, form>>

\* save() is answered; the response is sent
RegisterSave(h) ==
    /\ h \in DOMAIN pending
    /\ pending[h].op = "register"
    /\ pending[h].pc = "save"
    /\ LET body == pending[h].body
           newUser == NewUser(body, pending[h].age)
       IN  IF newUser.fullName = <<>>
           THEN \* `required: true` of the schema fails in save()
                /\ pending' = Await(h, Suspended("register", BadParam, body,
                                                 pending[h].age, "done", 400,
                                                 "Database validation failed"))
                /\ UNCHANGED <<users, nextId>>
           ELSE /\ nextId <= MaxId
                /\ users' = [i \in DOMAIN users \cup {nextId} |->
                                IF i = nextId THEN newUser ELSE users[i]]
                /\ nextId' = nextId + 1
                /\ pending' = Await(h, Suspended("register", Param(nextId), body,
                                                 pending[h].age, "done", 201, ""))
    /\ UNCHANGED <<today, res, call, form>>

NextRace ==
    \/ \E h \in Handlers, body \in RaceBodies : RegisterStart(h, body)
    \/ \E h \in Handlers : RegisterFindOne(h)
    \/ \E h \in Handlers : RegisterSave(h)

SpecRace == Init /\ [][NextRace]_vars

-----------------------------------------------------------------------------
(* Two update or delete requests in flight at once on a store that holds   *)
(* one document.  findByIdAndUpdate and findByIdAndDelete are each one     *)
(* operation of the database on one document                               *)

\* the document a create of (Al, 1983-06-15, Male) on StartDate has stored
StoredUser ==
    [fullName |-> Al,
     dateOfBirth |-> [year |-> 1983, month |-> "06", day |-> 15],
     gender |-> "Male",
     timeOfBirth |-> [hour |-> <<>>],
     age |-> AgeBetween(NewDate(1983, parseInt("06") - 1, 15), StartDate),
     createdAt |-> StartDate,
     status |-> "active"]

InitWrites ==
    /\ users = [i \in {1} |-> StoredUser]
    /\ nextId = 2
    /\ today = StartDate
    /\ res = Reply("none", BadParam, 0, "")
    /\ pending = NoPending
    /\ form = NoForm
    /\ call = NoCall

WriteBodies ==
    { Body(Bo, 1990, "06", 15, "Male"),
      Body(Al, 2003, "06", 15, "Female"),
      Body(Bo, 2003, "06", 15, "Male"),
      Body(<<"A">>, 1990, "06", 15, "Female") }

NoBody == Body(<<>>, 0, "", 0, "")

\* PUT /api/users/:id, up to `await User.findByIdAndUpdate`
UpdateStart(h, param, body) ==
    LET errors == registrationValidation(body)
        dateOfBirth == body.dateOfBirth
        age == calculateAge(dateOfBirth.year, dateOfBirth.month, dateOfBirth.day)
        ageValidationErrors == validateAge(age, body.gender)
    IN  /\ h \notin DOMAIN pending
        /\ pending' =
              IF errors # <<>>
              THEN Await(h, Suspended("update", param, body, age, "done",
                                      400, "Validation failed"))
              ELSE IF ageValidationErrors # <<>>
              THEN Await(h, Suspended("update", param, body, age, "done",
                                      400, "Age validation failed"))
              ELSE Await(h, Suspended("update", param, body, age,
                                      "findByIdAndUpdate", 0, ""))
        /\ UNCHANGED <<users, nextId, today, res, call, form>>

\* the update done as two writes: the name and the birth date, then the rest
UpdateWriteTwoWrites(h) ==
    /\ h \in DOMAIN pending
    /\ pending[h].op = "update"
    /\ pending[h].pc \in {"findByIdAndUpdate", "save"}
    /\ LET param == pending[h].param
           body == pending[h].body
           id == param.oid
       IN  IF ~param.valid
           THEN /\ pending' = Await(h, Suspended("update", param, body,
                                                 pending[h].age, "done", 400,
                                                 "Invalid user ID format"))
                /\ UNCHANGED users
           ELSE IF trim(body.fullName) = <<>>
           THEN /\ pending' = Await(h, Suspended("update", param, body,
                                                 pending[h].age, "done", 400,
                                                 "Database validation failed"))
                /\ UNCHANGED users
           ELSE IF id \notin DOMAIN users
           THEN /\ pending' = Await(h, Suspended("update", param, body,
                                                 pending[h].age, "done", 404,
                                                 "User not found"))
                /\ UNCHANGED users
           ELSE IF pending[h].pc = "findByIdAndUpdate"
           THEN /\ users' = [users EXCEPT ![id].fullName = trim(body.fullName),
                                          ![id].dateOfBirth = body.dateOfBirth]
                /\ pending' = Await(h, Suspended("update", param, body,
                                                 pending[h].age, "save", 0, ""))
           ELSE /\ users' = [users EXCEPT ![id].gender = body.gender,
                                          ![id].timeOfBirth = body.timeOfBirth,
                                          ![id].age = pending[h].age]
                /\ pending' = Await(h, Suspended("update", param, body,
                                                 pending[h].age, "done", 200, ""))
    /\ UNCHANGED <<nextId, today, res, call, form>>

\* findByIdAndUpdate is answered; the response is sent
UpdateWrite(h) ==
    /\ h \in DOMAIN pending
    /\ pending[h].op = "update"
    /\ pending[h].pc = "findByIdAndUpdate"
    /\ LET param == pending[h].param
           body == pending[h].body
           id == param.oid
       IN  IF ~param.valid
           THEN \* findByIdAndUpdate throws CastError
                /\ pending' = Await(h, Suspended("update", param, body,
                                                 pending[h].age, "done", 400,
                                                 "Invalid user ID format"))
                /\ UNCHANGED users
           ELSE IF trim(body.fullName) = <<>>
           THEN \* runValidators: `required: true` fails
                /\ pending' = Await(h, Suspended("update", param, body,
                                                 pending[h].age, "done", 400,
                                                 "Database validation failed"))
                /\ UNCHANGED users
           ELSE IF id \notin DOMAIN users
           THEN /\ pending' = Await(h, Suspended("update", param, body,
                                                 pending[h].age, "done", 404,
                                                 "User not found"))
                /\ UNCHANGED users
           ELSE /\ users' = [users EXCEPT
                                ![id] = Updated(@, body, pending[h].age)]
                /\ pending' = Await(h, Suspended("update", param, body,
                                                 pending[h].age, "done", 200, ""))
    /\ UNCHANGED <<nextId, today, res, call, form>>

\* DELETE /api/users/:id, up to `await User.findByIdAndDelete`
DeleteStart(h, param) ==
    /\ h \notin DOMAIN pending
    /\ pending' = Await(h, Suspended("delete", param, NoBody, 0,
                                     "findByIdAndDelete", 0, ""))
    /\ UNCHANGED <<users, nextId, today, res, call, form>>

\* findByIdAndDelete is answered; the response is sent
DeleteWrite(h) ==
    /\ h \in DOMAIN pending
    /\ pending[h].op = "delete"
    /\ pending[h].pc = "findByIdAndDelete"
    /\ LET param == pending[h].param
           id == param.oid
       IN  IF ~param.valid
           THEN \* findByIdAndDelete throws CastError
                /\ pending' = Await(h, Suspended("delete", param, NoBody, 0,
                                                 "done", 400,
                                                 "Invalid user ID format"))
                /\ UNCHANGED users
           ELSE IF id \notin DOMAIN users
           THEN /\ pending' = Await(h, Suspended("delete", param, NoBody, 0,
                                                 "done", 404, "User not found"))
                /\ UNCHANGED users
           ELSE /\ users' = [i \in DOMAIN users \ {id} |-> users[i]]
                /\ pending' = Await(h, Suspended("delete", param, NoBody, 0,
                                                 "done", 200, ""))
    /\ UNCHANGED <<nextId, today, res, call, form>>

NextWrites ==
    \/ \E h \in Handlers, param \in Params, body \in WriteBodies :
          UpdateStart(h, param, body)
    \/ \E h \in Handlers : UpdateWrite(h)
    \/ \E h \in Handlers, param \in Params : DeleteStart(h, param)
    \/ \E h \in Handlers : DeleteWrite(h)

SpecWrites == InitWrites /\ [][NextWrites]_vars

-----------------------------------------------------------------------------
(* validateAge called on its own, as POST /api/validate-age and the two    *)
(* handlers call it: the arguments are drawn first, then the call is made  *)

ProbeAges == (0 - 2)..MaxProbeAge
ProbeGenders == Genders \cup {"Other", ""}

InitAge ==
    /\ users = [i \in {} |-> 0]
    /\ nextId = 1
    /\ today = StartDate
    /\ res = Reply("none", BadParam, 0, "")
    /\ pending = NoPending
    /\ form = NoForm
    /\ call \in { [fn |-> "validateAge", done |-> FALSE,
                   args |-> <<a, g>>, ret |-> <<>>] :
                  a \in ProbeAges, g \in ProbeGenders }

CallValidateAge ==
    /\ call.fn = "validateAge"
    /\ ~call.done
    /\ call' = [call EXCEPT !.done = TRUE,
                            !.ret = validateAge(call.args[1], call.args[2])]
    /\ UNCHANGED <<users, nextId, today, res, pending, form>>

NextAge == CallValidateAge

SpecAge == InitAge /\ [][NextAge]_vars

-----------------------------------------------------------------------------
(* The age preview of RegistrationForm beside validateAge of the server:   *)
(* both are applied to the same age and gender                             *)

ClientMaxAgeMsg == "Maximum age for both genders is 40 years. If above 40, please visit our other site."

\* the preview with the women's minimum applied to men
previewMessageMaleMin18(age, gender) ==
    IF gender = "Male" /\ age < 18 THEN MaleMinMsg
    ELSE IF gender = "Female" /\ age < 18 THEN FemaleMinMsg
    ELSE IF age > 40 THEN ClientMaxAgeMsg
    ELSE ""

\* the if / else-if chain of the validation effect: the argument of
\* setAgeValidation for an age and a gender
previewMessage(age, gender) ==
    IF gender = "Male" /\ age < 21 THEN MaleMinMsg
    ELSE IF gender = "Female" /\ age < 18 THEN FemaleMinMsg
    ELSE IF age > 40 THEN ClientMaxAgeMsg
    ELSE ""

FormGenders == Genders \cup {""}

InitPreview ==
    /\ users = [i \in {} |-> 0]
    /\ nextId = 1
    /\ today = StartDate
    /\ res = Reply("none", BadParam, 0, "")
    /\ pending = NoPending
    /\ form = NoForm
    /\ call \in { [fn |-> "preview", done |-> FALSE, args |-> <<a, g>>,
                   ret |-> [client |-> "", server |-> <<>>]] :
                  a \in ProbeAges, g \in FormGenders }

CallPreview ==
    /\ call.fn = "preview"
    /\ ~call.done
    /\ call' = [call EXCEPT
                  !.done = TRUE,
                  !.ret = [client |-> previewMessage(call.args[1], call.args[2]),
                           server |-> validateAge(call.args[1], call.args[2])]]
    /\ UNCHANGED <<users, nextId, today, res, pending, form>>

NextPreview == CallPreview

SpecPreview == InitPreview /\ [][NextPreview]_vars

-----------------------------------------------------------------------------
(* RegistrationForm: the edits of its fields, each followed by the         *)
(* validation effect when the birth date or the gender changed, the clicks *)
(* on the submit button, the responses to its requests, and the clock.     *)
(* The value of a select of numbers is a sequence, empty for ''            *)

MaxPosts == 2       \* requests of the form that await their response

EmptyFormData ==
    [fullName |-> <<>>,
     dateOfBirth |-> [year |-> <<>>, month |-> "", day |-> <<>>],
     gender |-> ""]

Fields == {"fullName", "dateOfBirth.year", "dateOfBirth.month",
           "dateOfBirth.day", "gender"}

\* what the user can put in a field
Options(field) ==
    CASE field = "fullName" -> { <<>>, Al, <<" ">> }
      [] field = "dateOfBirth.year" -> { <<>>, <<1983>>, <<2003>>, <<2006>> }
      [] field = "dateOfBirth.month" -> { "", "06" }
      [] field = "dateOfBirth.day" -> { <<>>, <<15>> }
      [] field = "gender" -> FormGenders

Field(formData, field) ==
    CASE field = "fullName" -> formData.fullName
      [] field = "dateOfBirth.year" -> formData.dateOfBirth.year
      [] field = "dateOfBirth.month" -> formData.dateOfBirth.month
      [] field = "dateOfBirth.day" -> formData.dateOfBirth.day
      [] field = "gender" -> formData.gender

\* setFormData of handleInputChange
SetField(formData, field, value) ==
    CASE field = "fullName" -> [formData EXCEPT !.fullName = value]
      [] field = "dateOfBirth.year" -> [formData EXCEPT !.dateOfBirth.year = value]
      [] field = "dateOfBirth.month" -> [formData EXCEPT !.dateOfBirth.month = value]
      [] field = "dateOfBirth.day" -> [formData EXCEPT !.dateOfBirth.day = value]
      [] field = "gender" -> [formData EXCEPT !.gender = value]

\* year && month && day
Complete(dateOfBirth) ==
    dateOfBirth.year # <<>> /\ dateOfBirth.month # "" /\ dateOfBirth.day # <<>>

\* the age the effect computes from a complete birth date
ClientAge(dateOfBirth) ==
    LET birthDate == NewDate(dateOfBirth.year[1],
                             parseInt(dateOfBirth.month) - 1,
                             dateOfBirth.day[1])
        age == today.year - birthDate.year
        monthDiff == today.month - birthDate.month
    IN  IF monthDiff < 0 \/ (monthDiff = 0 /\ today.date < birthDate.date)
        THEN age - 1
        ELSE age

\* the effect with an else branch that clears the message
EffectClearing(f) ==
    IF Complete(f.formData.dateOfBirth)
    THEN [f EXCEPT !.ageValidation =
                      previewMessage(ClientAge(f.formData.dateOfBirth),
                                     f.formData.gender)]
    ELSE [f EXCEPT !.ageValidation = ""]

\* useEffect(..., [formData.dateOfBirth, formData.gender])
Effect(f) ==
    IF Complete(f.formData.dateOfBirth)
    THEN [f EXCEPT !.ageValidation =
                      previewMessage(ClientAge(f.formData.dateOfBirth),
                                     f.formData.gender)]
    ELSE f

\* the keys of newErrors
validateForm(f) ==
    (IF trim(f.formData.fullName) = <<>> THEN {"fullName"} ELSE {})
    \cup (IF ~Complete(f.formData.dateOfBirth) THEN {"dateOfBirth"} ELSE {})
    \cup (IF f.formData.gender = "" THEN {"gender"} ELSE {})
    \cup (IF f.ageValidation # "" THEN {"ageValidation"} ELSE {})

InitForm ==
    /\ users = [i \in {} |-> 0]
    /\ nextId = 1
    /\ today = StartDate
    /\ res = Reply("none", BadParam, 0, "")
    /\ pending = NoPending
    /\ call = NoCall
    /\ form = [mounted |-> TRUE, formData |-> EmptyFormData, errors |-> {},
               ageValidation |-> "", awaiting |-> 0]

\* onChange of an input or a select, and the effect of the render it causes
handleInputChange(field, value) ==
    /\ value # Field(form.formData, field)
    /\ LET edited == [form EXCEPT !.formData = SetField(@, field, value),
                                  !.errors = @ \ {field}]
       IN  form' = IF field = "fullName" THEN edited ELSE Effect(edited)
    /\ UNCHANGED <<users, nextId, today, res, call, pending>>

\* a click that reaches fetch whatever validateForm returns, on a button that
\* is never disabled
handleSubmitUnchecked ==
    /\ form.awaiting < MaxPosts
    /\ form' = [form EXCEPT !.errors = validateForm(form),
                            !.awaiting = @ + 1]
    /\ UNCHANGED <<users, nextId, today, res, call, pending>>

\* a click on the submit button: handleSubmit up to `await fetch`
handleSubmit ==
    /\ form.ageValidation = ""        \* disabled={!!ageValidation}
    /\ IF validateForm(form) # {}
       THEN form' = [form EXCEPT !.errors = validateForm(form)]
       ELSE /\ form.awaiting < MaxPosts
            /\ form' = [form EXCEPT !.errors = {}, !.awaiting = @ + 1]
    /\ UNCHANGED <<users, nextId, today, res, call, pending>>

\* the response to a request of the form arrives: handleSubmit after fetch
Response(ok) ==
    /\ form.awaiting > 0
    /\ form' = IF ok
               THEN Effect([form EXCEPT !.formData = EmptyFormData,
                                        !.awaiting = @ - 1])
               ELSE [form EXCEPT !.awaiting = @ - 1]
    /\ UNCHANGED <<users, nextId, today, res, call, pending>>

NextForm ==
    \/ \E field \in Fields : \E value \in Options(field) :
          handleInputChange(field, value)
    \/ handleSubmit
    \/ \E ok \in BOOLEAN : Response(ok)
    \/ Tick

SpecForm == InitForm /\ [][NextForm]_vars

-----------------------------------------------------------------------------
(* calculateAge called on its own, on every birth date the validation      *)
(* chain lets through, at every day of the reference years                 *)

RefYears == {2023, 2024}
BirthYears == {2000, 2001}

\* the days of the reference years that exist in the calendar
RefDates ==
    { r \in { [year |-> y, month |-> m, date |-> d] :
                y \in RefYears, m \in 0..11, d \in 1..31 } :
        r.date <= DaysInMonth(r.year, r.month) }

InitCalc ==
    /\ users = [i \in {} |-> 0]
    /\ nextId = 1
    /\ today \in RefDates
    /\ res = Reply("none", BadParam, 0, "")
    /\ pending = NoPending
    /\ form = NoForm
    /\ call \in { [fn |-> "calculateAge", done |-> FALSE,
                   args |-> <<y, m, d>>, ret |-> 0] :
                  y \in BirthYears, m \in ValidMonths, d \in MinDay..MaxDay }

CallCalculateAge ==
    /\ call.fn = "calculateAge"
    /\ ~call.done
    /\ call' = [call EXCEPT !.done = TRUE,
                            !.ret = calculateAge(call.args[1], call.args[2],
                                                 call.args[3])]
    /\ UNCHANGED <<users, nextId, today, res, pending, form>>

NextCalc == CallCalculateAge

SpecCalc == InitCalc /\ [][NextCalc]_vars

-----------------------------------------------------------------------------
(* Properties *)

Range(seq) == { seq[i] : i \in 1..Len(seq) }

\* the eligibility rule of the data model
Eligible(gender, age) ==
    /\ gender = "Male" => (21 <= age /\ age <= 40)
    /\ gender = "Female" => (18 <= age /\ age <= 40)

\* C1: whatever creates, updates and deletes were handled, every stored
\* document's age satisfies the eligibility rule for its stored gender:
\* Male implies 21..40, Female implies 18..40.
C1_StoredEligible ==
    \A id \in DOMAIN users : Eligible(users[id].gender, users[id].age)

\* a document that an update has just rewritten to a man of exactly 21
C1_Witness ==
    /\ res.op = "update" /\ res.status = 200
    /\ res.param.oid \in DOMAIN users
    /\ users[res.param.oid].gender = "Male"
    /\ users[res.param.oid].age = 21

\* C2: with the requests handled one at a time, no two stored documents share
\* the same (fullName, year, month, day).
C2_Unique ==
    \A i, j \in DOMAIN users :
        i # j => ~(/\ users[i].fullName = users[j].fullName
                   /\ users[i].dateOfBirth = users[j].dateOfBirth)

\* C3: for a man under 21 validateAge returns a list with the male-minimum
\* message, for a woman under 18 a list with the female-minimum message.
C3_MinimumMessages ==
    (call.fn = "validateAge" /\ call.done) =>
        /\ (call.args[2] = "Male" /\ call.args[1] < 21) =>
               "Men must be at least 21 years old" \in Range(call.ret)
        /\ (call.args[2] = "Female" /\ call.args[1] < 18) =>
               "Women must be at least 18 years old" \in Range(call.ret)

\* validateAge has answered for a man of 20
C3_Witness ==
    /\ call.fn = "validateAge" /\ call.done
    /\ call.args = <<20, "Male">>
    /\ call.ret # <<>>

\* C4: for every age over 40 and every gender value validateAge returns a
\* non-empty list that contains the maximum-age message.
C4_MaximumMessage ==
    (call.fn = "validateAge" /\ call.done /\ call.args[1] > 40) =>
        /\ call.ret # <<>>
        /\ MaxAgeMsg \in Range(call.ret)

\* validateAge has answered for an age of 41 with a gender outside the enum
C4_Witness ==
    /\ call.fn = "validateAge" /\ call.done
    /\ call.args = <<41, "Other">>
    /\ Len(call.ret) = 1

\* C5: for gender Male or Female, validateAge returns the empty list exactly
\* when the age is eligible (Male 21..40, Female 18..40).
C5_EmptyIffEligible ==
    (call.fn = "validateAge" /\ call.done /\ call.args[2] \in {"Male", "Female"}) =>
        (call.ret = <<>> <=> Eligible(call.args[2], call.args[1]))

\* validateAge has passed a woman of 40
C5_Witness ==
    /\ call.fn = "validateAge" /\ call.done
    /\ call.args = <<40, "Female">>
    /\ call.ret = <<>>

\* (m1, d1) is earlier in the year than (m2, d2); months counted from 1
Precedes(m1, d1, m2, d2) == m1 < m2 \/ (m1 = m2 /\ d1 < d2)

\* C6 as stated: for every birth (year, month, day) the validation accepts and
\* every reference date, calculateAge returns referenceYear - birthYear, less
\* one exactly when the reference (month, day) precedes the submitted birth
\* (month, day).
C6_SubmittedMonthDay ==
    (call.fn = "calculateAge" /\ call.done) =>
        call.ret = today.year - call.args[1]
                   - (IF Precedes(today.month + 1, today.date,
                                  parseInt(call.args[2]), call.args[3])
                      THEN 1 ELSE 0)

\* C6 amended: calculateAge returns referenceYear - birthYear, less one exactly
\* when the reference (month, day) precedes the (month, day) of the birth date
\* as the Date constructor normalises it: the submitted (month, day) when that
\* day exists in the month of that year, else the day rolled into the next
\* month.  Born 2000-06-15 gives 23 on 2024-06-14 and 24 on 2024-06-15.
C6_NormalisedMonthDay ==
    (call.fn = "calculateAge" /\ call.done) =>
        LET y == call.args[1]
            m == parseInt(call.args[2])
            d == call.args[3]
            len == DaysInMonth(y, m - 1)
            bm == IF d <= len THEN m ELSE m + 1
            bd == IF d <= len THEN d ELSE d - len
        IN  /\ call.ret = today.year - y
                          - (IF Precedes(today.month + 1, today.date, bm, bd)
                             THEN 1 ELSE 0)
            /\ (call.args = <<2000, "06", 15>>
                  /\ today = [year |-> 2024, month |-> 5, date |-> 14])
               => call.ret = 23
            /\ (call.args = <<2000, "06", 15>>
                  /\ today = [year |-> 2024, month |-> 5, date |-> 15])
               => call.ret = 24

\* calculateAge has answered for a birth day of 2001-02-31 on 2024-03-01,
\* two days before the date the birth day rolls to
C6_Witness ==
    /\ call.fn = "calculateAge" /\ call.done
    /\ call.args = <<2001, "02", 31>>
    /\ today = [year |-> 2024, month |-> 2, date |-> 1]
    /\ call.ret = 22

\* C7: every stored document's age is the age the server computed from that
\* document's stored birth date on the day of its last successful create or
\* update, never the age the request body carried: a step leaves a document as
\* it was, or leaves it with the age of its own new birth date on that day.
C7_AgeDerivedFromStoredBirth ==
    [][ \A id \in DOMAIN users' :
          \/ id \in DOMAIN users /\ users'[id] = users[id]
          \/ LET dob == users'[id].dateOfBirth
             IN  users'[id].age =
                     AgeBetween(NewDate(dob.year, parseInt(dob.month) - 1, dob.day),
                                today) ]_vars

\* a document rewritten by an update on a later day than its creation, whose
\* age is not the age of the request body
C7_Witness ==
    /\ res.op = "update" /\ res.status = 200
    /\ res.param.oid \in DOMAIN users
    /\ users[res.param.oid].createdAt # today
    /\ \A b \in Bodies : users[res.param.oid].age # b.age

\* the age lies outside the bounds of the rule for the gender
OutOfBounds(gender, age) ==
    \/ age > 40
    \/ gender = "Male" /\ age < 21
    \/ gender = "Female" /\ age < 18

\* a stored document has the name (trimmed) and the birth date of the body
Duplicate(body) ==
    \E id \in DOMAIN users :
        /\ users[id].fullName = trim(body.fullName)
        /\ users[id].dateOfBirth = body.dateOfBirth

\* C8 as stated: a create whose (fullName, year, month, day) equals that of a
\* stored document is answered 409 and leaves the collection as it was.
C8_DuplicateAlways409 ==
    [][ res'.op = "register" =>
          \A body \in Bodies :
             (Duplicate(body) /\ Register(body)) =>
                 (res'.status = 409 /\ users' = users) ]_vars

\* C8 amended: a create that passes the validation chain and the age rule and
\* whose (trimmed fullName, year, month, day) equals that of a stored document
\* is answered 409; a create that duplicates a stored document and fails the
\* chain or the age rule is answered 400; either way the collection is left
\* as it was.
C8_DuplicateRejected ==
    [][ res'.op = "register" =>
          \A body \in Bodies :
             (Duplicate(body) /\ Register(body)) =>
                 /\ users' = users
                 /\ res'.status =
                       IF registrationValidation(body) = <<>>
                          /\ ~OutOfBounds(body.gender,
                                          calculateAge(body.dateOfBirth.year,
                                                       body.dateOfBirth.month,
                                                       body.dateOfBirth.day))
                       THEN 409 ELSE 400 ]_vars

\* a create has been answered 409 while a document is stored
C8_Witness ==
    /\ res.op = "register" /\ res.status = 409
    /\ res.error = "User already exists"
    /\ users # << >>

\* C9: an update of a stored document whose new birth date gives an age outside
\* the bounds for the submitted gender is answered 400, and the document keeps
\* every field it had, its age and its birth date among them.  Stated on
\* the steps that answer an update of a stored document: such a step either is
\* a 400 that leaves the collection as it was, or is the step of no request
\* whose age is out of bounds.
C9_IneligibleUpdateRejected ==
    [][ (res'.op = "update" /\ res'.param.valid
           /\ res'.param.oid \in DOMAIN users) =>
          \/ /\ res'.status = 400
             /\ users' = users
          \/ \A body \in Bodies :
                OutOfBounds(body.gender,
                            calculateAge(body.dateOfBirth.year,
                                         body.dateOfBirth.month,
                                         body.dateOfBirth.day))
                => ~Update(res'.param, body) ]_vars

\* an update of a stored document has been answered 400 for its age
C9_Witness ==
    /\ res.op = "update" /\ res.status = 400
    /\ res.error = "Age validation failed"
    /\ res.param.valid /\ res.param.oid \in DOMAIN users

\* C10 as stated: a delete for an identifier with no stored document is
\* answered 404 and leaves the collection as it was.
C10_AbsentAlways404 ==
    [][ \A param \in Params :
          (~(param.valid /\ param.oid \in DOMAIN users) /\ Delete(param)) =>
              (res'.status = 404 /\ users' = users) ]_vars

\* C10 amended: a delete for a well-formed identifier with no stored document
\* is answered 404, one deleted earlier included; a delete for a string that
\* is no ObjectId is answered 400; either way the collection is left as it was.
C10_AbsentRejected ==
    [][ \A param \in Params :
          (~(param.valid /\ param.oid \in DOMAIN users) /\ Delete(param)) =>
              /\ users' = users
              /\ res'.status = IF param.valid THEN 404 ELSE 400 ]_vars

\* a delete has been answered 404 for an identifier that was generated and
\* whose document was deleted before
C10_Witness ==
    /\ res.op = "delete" /\ res.status = 404
    /\ res.param.valid /\ res.param.oid < nextId
    /\ res.param.oid \notin DOMAIN users


\* the body passes the validation chain and its age is within the bounds
Accepted(body) ==
    /\ registrationValidation(body) = <<>>
    /\ ~OutOfBounds(body.gender,
                    calculateAge(body.dateOfBirth.year, body.dateOfBirth.month,
                                 body.dateOfBirth.day))

\* C11 as stated: an update with a well-formed, eligible payload for an
\* identifier with no stored document is answered 404 and leaves the
\* collection as it was.
C11_AbsentUpdateAlways404 ==
    [][ (res'.op = "update"
           /\ ~(res'.param.valid /\ res'.param.oid \in DOMAIN users)) =>
          \A body \in AllBodies :
             (Accepted(body) /\ Update(res'.param, body)) =>
                 (res'.status = 404 /\ users' = users) ]_vars

\* C11 amended: an update with a payload that passes the validation chain and
\* the age rule, for an identifier with no stored document, leaves the
\* collection as it was and creates no document; it is answered 404 when the
\* identifier is a well-formed ObjectId and the name has a character other
\* than a space, and 400 when the identifier is no ObjectId or the name is
\* spaces only.
C11_AbsentUpdateRejected ==
    [][ (res'.op = "update"
           /\ ~(res'.param.valid /\ res'.param.oid \in DOMAIN users)) =>
          \A body \in AllBodies :
             (Accepted(body) /\ Update(res'.param, body)) =>
                 /\ users' = users
                 /\ res'.status =
                       IF res'.param.valid /\ trim(body.fullName) # <<>>
                       THEN 404 ELSE 400 ]_vars

\* an update has been answered 404 for a well-formed identifier that has no
\* stored document
C11_Witness ==
    /\ res.op = "update" /\ res.status = 404
    /\ res.error = "User not found"
    /\ res.param.valid /\ res.param.oid \notin DOMAIN users

\* the validators of the required fields pass
RequiredWellFormed(body) ==
    registrationValidation([body EXCEPT !.timeOfBirth.hour = <<>>]) = <<>>

\* the step has answered 201 and inserted the document of the body under an
\* identifier no stored document has, with status 'active', today as creation
\* time and the age of the birth date; the response carries the same values;
\* every document stored before is as it was
Created(body) ==
    LET id == res'.param.oid
        age == calculateAge(body.dateOfBirth.year, body.dateOfBirth.month,
                            body.dateOfBirth.day)
    IN  /\ res'.status = 201
        /\ res'.param.valid
        /\ id \notin DOMAIN users
        /\ DOMAIN users' = DOMAIN users \cup {id}
        /\ users'[id] = [fullName |-> trim(body.fullName),
                         dateOfBirth |-> body.dateOfBirth,
                         gender |-> body.gender,
                         timeOfBirth |-> body.timeOfBirth,
                         age |-> age,
                         createdAt |-> today,
                         status |-> "active"]
        /\ res'.user = << [fullName |-> trim(body.fullName),
                           dateOfBirth |-> body.dateOfBirth,
                           gender |-> body.gender,
                           age |-> age,
                           createdAt |-> today,
                           status |-> "active"] >>
        /\ \A old \in DOMAIN users : users'[old] = users[old]

\* C12 as stated: a create with well-formed required fields, an eligible age
\* and no stored duplicate is answered 201 and inserts exactly one document,
\* fresh identifier, status 'active', creation time, derived age, echoed in the
\* response, every other document unchanged.
C12_RequiredFieldsCreate ==
    [][ res'.op = "register" =>
          \A body \in AllBodies :
             (RequiredWellFormed(body)
                /\ ~OutOfBounds(body.gender,
                                calculateAge(body.dateOfBirth.year,
                                             body.dateOfBirth.month,
                                             body.dateOfBirth.day))
                /\ ~Duplicate(body)
                /\ Register(body)) => Created(body) ]_vars

\* C12 amended: the same for a create that passes the whole validation chain,
\* the validators of the optional fields it carries included, and whose name
\* has a character other than a space.
C12_AcceptedCreate ==
    [][ res'.op = "register" =>
          \A body \in AllBodies :
             (Accepted(body)
                /\ trim(body.fullName) # <<>>
                /\ ~Duplicate(body)
                /\ Register(body)) => Created(body) ]_vars

\* a create has been answered 201 today while another document was stored
C12_Witness ==
    /\ res.op = "register" /\ res.status = 201
    /\ res.param.oid \in DOMAIN users
    /\ users[res.param.oid].createdAt = today
    /\ res.user = <<Echo(users[res.param.oid])>>
    /\ Cardinality(DOMAIN users) = 2

\* the age of the body's birth date is outside the bounds for its gender
Ineligible(body) ==
    OutOfBounds(body.gender,
                calculateAge(body.dateOfBirth.year, body.dateOfBirth.month,
                             body.dateOfBirth.day))

\* the answer the order of the checks gives a body that fails one of the
\* first two: 400 of the chain first, 400 of the age rule second
RejectedInOrder(body) ==
    /\ registrationValidation(body) # <<>> =>
          (res'.status = 400 /\ res'.error = "Validation failed")
    /\ (registrationValidation(body) = <<>> /\ Ineligible(body)) =>
          (res'.status = 400 /\ res'.error = "Age validation failed")
    /\ users' = users

\* C18: a create is rejected for a malformed field (400) before its age (400)
\* before a duplicate (409), so an ineligible duplicate is answered 400; an
\* update is rejected for a malformed field (400) and for its age (400) before
\* the identifier is looked up, so an ineligible payload for an unknown
\* identifier is answered 400 and not 404.
C18_RejectionOrder ==
    [][ /\ res'.op = "register" =>
             \A body \in AllBodies :
                ((registrationValidation(body) # <<>> \/ Ineligible(body))
                   /\ Register(body)) => RejectedInOrder(body)
        /\ res'.op = "update" =>
             \A body \in AllBodies :
                ((registrationValidation(body) # <<>> \/ Ineligible(body))
                   /\ Update(res'.param, body)) => RejectedInOrder(body) ]_vars

\* a create has been answered 400 for its age while a body that passes the
\* chain is both out of bounds and the duplicate of a stored document
C18_Witness ==
    /\ res.op = "register" /\ res.status = 400
    /\ res.error = "Age validation failed"
    /\ \E body \in AllBodies :
          /\ registrationValidation(body) = <<>>
          /\ Ineligible(body)
          /\ Duplicate(body)

\* C19: an update answered 200 changes no document but the one it names, keeps
\* that document under its identifier and leaves its createdAt and its status
\* as they were; and every stored document has status 'active' after every
\* step.
C19_UpdateFrame ==
    [][ /\ \A id \in DOMAIN users' : users'[id].status = "active"
        /\ (res'.op = "update" /\ res'.status = 200) =>
             /\ res'.param.valid
             /\ res'.param.oid \in DOMAIN users
             /\ DOMAIN users' = DOMAIN users
             /\ nextId' = nextId
             /\ \A id \in DOMAIN users \ {res'.param.oid} :
                    users'[id] = users[id]
             /\ users'[res'.param.oid].createdAt = users[res'.param.oid].createdAt
             /\ users'[res'.param.oid].status = users[res'.param.oid].status ]_vars

\* an update has been answered 200 for a document created on an earlier day
\* while another document is stored
C19_Witness ==
    /\ res.op = "update" /\ res.status = 200
    /\ res.param.oid \in DOMAIN users
    /\ users[res.param.oid].createdAt # today
    /\ users[res.param.oid].status = "active"
    /\ Cardinality(DOMAIN users) = 2

\* C17: every stored fullName has 2 to 50 characters, letters and spaces only.
C17_StoredNameShape ==
    \A id \in DOMAIN users :
        /\ Len(users[id].fullName) >= MinNameLen
        /\ Len(users[id].fullName) <= MaxNameLen
        /\ \A i \in 1..Len(users[id].fullName) :
              users[id].fullName[i] \in Letters \cup {" "}

\* C13: two create requests with the same (fullName, birth date) can both pass
\* the duplicate check before either inserts, and both are then stored.  The
\* state with both stored is C13_Witness; what makes it reachable holds of
\* every step: the findOne of a handler passes exactly when no duplicate is
\* stored at that moment, whatever the other handler has in flight, and the
\* save() of a handler that passed inserts its document whatever is stored at
\* that moment (no uniqueness constraint), and is answered 201.
C13_CheckThenInsert ==
    [][ \A h \in Handlers :
          /\ RegisterFindOne(h) =>
                (pending'[h].pc = "save" <=> ~Duplicate(pending[h].body))
          /\ (RegisterSave(h) /\ trim(pending[h].body.fullName) # <<>>) =>
                /\ pending'[h].status = 201
                /\ nextId \notin DOMAIN users
                /\ nextId \in DOMAIN users'
                /\ users'[nextId].fullName = trim(pending[h].body.fullName)
                /\ users'[nextId].dateOfBirth = pending[h].body.dateOfBirth ]_vars

\* both handlers have been answered 201 for the same name and birth date, and
\* two documents with that name and birth date are stored
C13_Witness ==
    /\ \A h \in Handlers :
          /\ h \in DOMAIN pending
          /\ pending[h].status = 201
    /\ \E i, j \in DOMAIN users :
          /\ i # j
          /\ users[i].fullName = users[j].fullName
          /\ users[i].dateOfBirth = users[j].dateOfBirth

\* the document carries the name, birth date and gender of the body of one
\* update that was answered 200 for `id`, and the age of that birth date; its
\* other fields are those of the stored document
WrittenBy(doc, id, locals) ==
    /\ locals.op = "update"
    /\ locals.param = Param(id)
    /\ locals.status = 200
    /\ doc = [fullName |-> trim(locals.body.fullName),
              dateOfBirth |-> locals.body.dateOfBirth,
              gender |-> locals.body.gender,
              timeOfBirth |-> locals.body.timeOfBirth,
              age |-> AgeBetween(NewDate(locals.body.dateOfBirth.year,
                                         parseInt(locals.body.dateOfBirth.month) - 1,
                                         locals.body.dateOfBirth.day), today),
              createdAt |-> StoredUser.createdAt,
              status |-> StoredUser.status]

\* C14: under every interleaving of two update or delete requests, a document
\* is absent, or as it was stored, or carries the name, birth date, gender and
\* age (of its own birth date) of one single update; and no step brings back
\* an identifier that has no document.
C14_OneWriter ==
    [][ /\ DOMAIN users' \subseteq DOMAIN users
        /\ \A id \in DOMAIN users' :
              \/ users'[id] = StoredUser
              \/ \E h \in DOMAIN pending' :
                    WrittenBy(users'[id], id, pending'[h]) ]_vars

\* both handlers were answered 200 for an update of the same identifier with
\* different bodies
C14_Witness ==
    /\ DOMAIN pending = Handlers
    /\ \A h \in Handlers :
          /\ pending[h].op = "update"
          /\ pending[h].status = 200
          /\ pending[h].param = Param(1)
    /\ pending[1].body.fullName # pending[2].body.fullName
    /\ pending[1].body.gender # pending[2].body.gender
    /\ 1 \in DOMAIN users

\* the rule a message of the client or of the server names
Violation(msg) ==
    IF msg = "Men must be at least 21 years old" THEN "male minimum"
    ELSE IF msg = "Women must be at least 18 years old" THEN "female minimum"
    ELSE IF msg \in {"Maximum age for both genders is 40 years. Please visit our other site for registration.",
                     "Maximum age for both genders is 40 years. If above 40, please visit our other site."}
    THEN "maximum"
    ELSE "none"

\* C15: for every age and for gender Male or Female, the message of the preview
\* is non-empty exactly when the list of validateAge is non-empty, and it names
\* the rule that the list names.
C15_PreviewAgrees ==
    (call.fn = "preview" /\ call.done /\ call.args[2] \in {"Male", "Female"}) =>
        /\ call.ret.client # "" <=> call.ret.server # <<>>
        /\ { Violation(m) : m \in Range(call.ret.server) } =
              IF call.ret.client = "" THEN {} ELSE { Violation(call.ret.client) }
        /\ "none" \notin { Violation(m) : m \in Range(call.ret.server) }

\* the preview and validateAge have both rejected a man of 18 to 20
C15_Witness ==
    /\ call.fn = "preview" /\ call.done
    /\ call.args[2] = "Male" /\ call.args[1] >= 18 /\ call.args[1] < 21
    /\ call.ret.client # ""
    /\ call.ret.server # <<>>

\* the step sends POST /api/register
Sends == form'.awaiting > form.awaiting

\* the birth date and the gender entered in f are complete and within the
\* bounds of the rule on the day `now`
EnteredEligible(f, now) ==
    /\ Complete(f.formData.dateOfBirth)
    /\ f.formData.gender \in Genders
    /\ ~OutOfBounds(f.formData.gender,
                    AgeBetween(NewDate(f.formData.dateOfBirth.year[1],
                                       parseInt(f.formData.dateOfBirth.month) - 1,
                                       f.formData.dateOfBirth.day[1]), now))

\* the birth date and the gender entered in f are complete and outside the
\* bounds of the rule on the day `now`
EnteredIneligible(f, now) ==
    /\ Complete(f.formData.dateOfBirth)
    /\ f.formData.gender \in Genders
    /\ OutOfBounds(f.formData.gender,
                   AgeBetween(NewDate(f.formData.dateOfBirth.year[1],
                                      parseInt(f.formData.dateOfBirth.month) - 1,
                                      f.formData.dateOfBirth.day[1]), now))

\* C16 as stated: the form sends the request only when the birth date and the
\* gender entered are eligible at that moment, and while they are ineligible
\* the submit button is disabled.
C16_SendsOnlyEligibleNow ==
    [][ /\ Sends => EnteredEligible(form, today)
        /\ EnteredIneligible(form', today') => form'.ageValidation # "" ]_vars

\* C16 amended: eligibility is that of the day of the last edit of the birth
\* date or the gender.  The form sends the request only when the birth date
\* is complete, a gender is chosen and the message is empty; the message
\* changes only in an edit of the birth date or the gender that leaves the
\* date complete, and after such an edit it is empty exactly when the age of
\* that day is within the bounds; a non-empty message disables the button, and
\* from such a state no step sends.
C16_SendsOnlyPreviewedEligible ==
    [][ /\ Sends => /\ Complete(form.formData.dateOfBirth)
                    /\ form.formData.gender \in Genders
                    /\ form.ageValidation = ""
                    /\ form'.formData = form.formData
        /\ form'.ageValidation # form.ageValidation =>
              /\ Complete(form'.formData.dateOfBirth)
              /\ \/ form'.formData.dateOfBirth # form.formData.dateOfBirth
                 \/ form'.formData.gender # form.formData.gender
        /\ ( /\ Complete(form'.formData.dateOfBirth)
             /\ form'.formData.gender \in Genders
             /\ \/ form'.formData.dateOfBirth # form.formData.dateOfBirth
                \/ form'.formData.gender # form.formData.gender ) =>
              (form'.ageValidation = "" <=> EnteredEligible(form', today')) ]_vars

\* a request is on its way for a complete birth date and a gender that are
\* within the bounds today
C16_Witness ==
    /\ form.mounted
    /\ form.awaiting > 0
    /\ form.ageValidation = ""
    /\ EnteredEligible(form, today)

\* C20 as stated: the message changes only in a step that leaves year, month
\* and day all non-empty, so an edit that makes the date incomplete keeps the
\* last message; a non-empty message is cleared only by a step that leaves a
\* complete birth date and a gender, Male or Female, that are eligible; and
\* from a state with a non-empty message no step sends a request.
C20_ClearedByEligibleEntry ==
    [][ /\ ~Complete(form'.formData.dateOfBirth) =>
              form'.ageValidation = form.ageValidation
        /\ (form.ageValidation # "" /\ form'.ageValidation = "") =>
              EnteredEligible(form', today')
        /\ form.ageValidation # "" => ~Sends ]_vars

\* C20 amended: the same, the message being cleared by a step that leaves a
\* complete date whose age breaks no rule for the value of the gender field:
\* within the bounds for Male or Female, at most 40 while no gender is
\* selected.
C20_StaleMessage ==
    [][ /\ ~Complete(form'.formData.dateOfBirth) =>
              form'.ageValidation = form.ageValidation
        /\ (form.ageValidation # "" /\ form'.ageValidation = "") =>
              /\ Complete(form'.formData.dateOfBirth)
              /\ ~OutOfBounds(form'.formData.gender,
                              AgeBetween(NewDate(form'.formData.dateOfBirth.year[1],
                                                 parseInt(form'.formData.dateOfBirth.month) - 1,
                                                 form'.formData.dateOfBirth.day[1]),
                                         today'))
        /\ form.ageValidation # "" => ~Sends ]_vars

\* the date is incomplete and the message of the last complete date is shown
C20_Witness ==
    /\ form.mounted
    /\ ~Complete(form.formData.dateOfBirth)
    /\ form.ageValidation # ""

=============================================================================
